---- MODULE Spec2Model ----
(***************************************************************************)
(* A model of xe::gpu::SpirvShaderTranslator: the conditional/predication  *)
(* state machine driven by the translator callbacks, and the vertex fetch  *)
(* decoding of ProcessVertexFetchInstruction.                              *)
(*                                                                         *)
(* The members of the translator are the fields of the record `self`.      *)
(* The SPIR-V builder is represented by what the claims observe of it:     *)
(* the blocks allocated (ids 1, 2, ...), the conditional branches emitted  *)
(* and the merge blocks added to the function.                             *)
(***************************************************************************)
EXTENDS Integers, Sequences, FiniteSets, Bags, TLC

(* ------------------------------------------------------------------ *)
(* Bounds of the model.                                                *)
(* ------------------------------------------------------------------ *)
\* Blocks the builder may allocate for conditionals in one translation.
MaxBlocks == 2
\* Bool constants 0..MaxBoolConstant are used by conditional execs.
MaxBoolConstant == 0
\* Labels / jump targets 0..MaxLabel.
MaxLabel == 0
\* Depth of loop nesting the stream may reach.
MaxLoopDepth == 1

(* ------------------------------------------------------------------ *)
(* Program constants.                                                  *)
(* ------------------------------------------------------------------ *)
\* nullptr of the spv::Block* members.
NullBlock == 0
\* UINT32_MAX, written as the 32-bit pattern read as a signed integer.
kCfExecBoolConstantPredicate == -1

ExecTypes == {"kUnconditional", "kConditional", "kPredicated"}
BoolConstants == 0..MaxBoolConstant
Labels == 0..MaxLabel

VARIABLES
    self,       \* the translator's members (control flow state and builder)
    status,     \* "translating", "complete" or "fatal"
    fault,      \* "none" or the fatal condition signalled
    module,     \* "none" or "bytes": what CompleteTranslation returned
    last,       \* the last callback and its arguments
    prev_exec,  \* the exec-begin before this point, if nothing but
                \* instructions and exec-ends came after it
    written_since, \* predicate writes since the last exec-begin and since
                   \* the instruction-level conditional was opened
    input,      \* the vertex fetch given to ProcessVertexFetchInstruction
    fetch       \* what the handler did for it

vars ==
    <<self, status, fault, module, last, prev_exec, written_since, input,
      fetch>>

(* ------------------------------------------------------------------ *)
(* Control flow: the exec-level and the instruction-level conditional. *)
(* ------------------------------------------------------------------ *)

\* The members after construction and StartTranslation: no conditional is
\* open, nothing has been emitted.
InitSelf ==
    [ cf_exec_conditional_merge_          |-> NullBlock,
      cf_instruction_predicate_merge_     |-> NullBlock,
      cf_exec_bool_constant_or_predicate_ |-> kCfExecBoolConstantPredicate,
      cf_exec_condition_                  |-> FALSE,
      cf_instruction_predicate_condition_ |-> FALSE,
      cf_exec_predicate_written_          |-> FALSE,
      next_block      |-> 1,          \* id of the next block the builder makes
      branches        |-> EmptyBag,   \* merge block id -> conditional branches to it
      function_blocks |-> EmptyBag,   \* merge block id -> times added to the function
      labels          |-> {},         \* labels met so far (cases of the pc switch)
      jump_targets    |-> {},         \* targets of jumps that are no label so far
      loop_depth      |-> 0 ]

\* Adding block b to the function and making it the build point.
AddBlock(s, b) ==
    [s EXCEPT !.function_blocks = @ (+) SetToBag({b})]

\* A new conditional: a block for the code after it, and a conditional branch
\* (with its selection merge) naming that block.
NewMergeBlock(s) ==
    [s EXCEPT !.next_block = @ + 1,
              !.branches = @ (+) SetToBag({s.next_block})]

\* The members that describe a conditional are read only while it is open
\* ("When cf_..._merge_ is not null"): the model keeps them at their initial
\* values while it is closed.
CloseInstructionPredication(s) ==
    IF s.cf_instruction_predicate_merge_ = NullBlock
    THEN s
    ELSE [AddBlock(s, s.cf_instruction_predicate_merge_)
             EXCEPT !.cf_instruction_predicate_merge_ = NullBlock,
                    !.cf_instruction_predicate_condition_ = FALSE]

\* CloseExecConditionals as it would be if it closed the exec-level conditional
\* alone.
CloseExecConditionals_ExecOnly(s) ==
    IF s.cf_exec_conditional_merge_ = NullBlock
    THEN [s EXCEPT !.cf_exec_predicate_written_ = FALSE]
    ELSE [AddBlock(s, s.cf_exec_conditional_merge_)
             EXCEPT !.cf_exec_conditional_merge_ = NullBlock,
                    !.cf_exec_bool_constant_or_predicate_ =
                        kCfExecBoolConstantPredicate,
                    !.cf_exec_condition_ = FALSE,
                    !.cf_exec_predicate_written_ = FALSE]

CloseExecConditionals(s) ==
    LET t == CloseInstructionPredication(s)
        u == IF t.cf_exec_conditional_merge_ = NullBlock
             THEN t
             ELSE [AddBlock(t, t.cf_exec_conditional_merge_)
                      EXCEPT !.cf_exec_conditional_merge_ = NullBlock,
                             !.cf_exec_bool_constant_or_predicate_ =
                                 kCfExecBoolConstantPredicate,
                             !.cf_exec_condition_ = FALSE]
    IN  [u EXCEPT !.cf_exec_predicate_written_ = FALSE]

\* The discriminator of an exec or jump: its bool constant, or the predicate.
ExecDiscriminator(type, bool_constant_index) ==
    IF type = "kConditional" THEN bool_constant_index
    ELSE kCfExecBoolConstantPredicate

\* UpdateExecConditionals as it would be if it did not read
\* cf_exec_predicate_written_.
UpdateExecConditionals_IgnoringWrites(s, type, bool_constant_index, condition) ==
    IF /\ type # "kUnconditional"
       /\ s.cf_exec_conditional_merge_ # NullBlock
       /\ s.cf_exec_bool_constant_or_predicate_
             = ExecDiscriminator(type, bool_constant_index)
       /\ s.cf_exec_condition_ = condition
    THEN s
    ELSE LET t == CloseExecConditionals(s)
         IN  IF type = "kUnconditional"
             THEN t
             ELSE [NewMergeBlock(t) EXCEPT
                      !.cf_exec_conditional_merge_ = t.next_block,
                      !.cf_exec_bool_constant_or_predicate_ =
                          ExecDiscriminator(type, bool_constant_index),
                      !.cf_exec_condition_ = condition]

UpdateExecConditionals(s, type, bool_constant_index, condition) ==
    IF /\ type # "kUnconditional"
       /\ s.cf_exec_conditional_merge_ # NullBlock
       /\ s.cf_exec_bool_constant_or_predicate_
             = ExecDiscriminator(type, bool_constant_index)
       /\ s.cf_exec_condition_ = condition
       /\ ~s.cf_exec_predicate_written_
    THEN s
    ELSE LET t == CloseExecConditionals(s)
         IN  IF type = "kUnconditional"
             THEN t
             ELSE [NewMergeBlock(t) EXCEPT
                      !.cf_exec_conditional_merge_ = t.next_block,
                      !.cf_exec_bool_constant_or_predicate_ =
                          ExecDiscriminator(type, bool_constant_index),
                      !.cf_exec_condition_ = condition]

\* UpdateInstructionPredication as it would be if it did not read
\* cf_exec_predicate_written_.
UpdateInstructionPredication_IgnoringWrites(s, predicated, condition) ==
    IF ~predicated
    THEN CloseInstructionPredication(s)
    ELSE IF /\ s.cf_instruction_predicate_merge_ # NullBlock
            /\ s.cf_instruction_predicate_condition_ = condition
         THEN s
         ELSE LET t == CloseInstructionPredication(s)
              IN  [NewMergeBlock(t) EXCEPT
                      !.cf_instruction_predicate_merge_ = t.next_block,
                      !.cf_instruction_predicate_condition_ = condition]

UpdateInstructionPredication(s, predicated, condition) ==
    IF ~predicated
    THEN CloseInstructionPredication(s)
    ELSE IF /\ s.cf_instruction_predicate_merge_ # NullBlock
            /\ s.cf_instruction_predicate_condition_ = condition
            /\ ~s.cf_exec_predicate_written_
         THEN s
         ELSE LET t == CloseInstructionPredication(s)
              IN  [NewMergeBlock(t) EXCEPT
                      !.cf_instruction_predicate_merge_ = t.next_block,
                      !.cf_instruction_predicate_condition_ = condition]

(* ------------------------------------------------------------------ *)
(* Bit arithmetic on 4-bit masks and on 32-bit words.                  *)
(* A 32-bit word is the pair <<hi, lo>> of its 16-bit halves.          *)
(* ------------------------------------------------------------------ *)
Pow2(k) == 2 ^ k

\* Bit i of the mask m.
Bit(m, i) == (m \div Pow2(i)) % 2

\* m & n on 4-bit masks.
And4(m, n) ==
    Bit(m, 0) * Bit(n, 0) + 2 * Bit(m, 1) * Bit(n, 1)
    + 4 * Bit(m, 2) * Bit(n, 2) + 8 * Bit(m, 3) * Bit(n, 3)

\* m & ~n on 4-bit masks.
AndNot4(m, n) == m - And4(m, n)

\* xe::bit_count on a 4-bit mask.
BitCount(m) == Bit(m, 0) + Bit(m, 1) + Bit(m, 2) + Bit(m, 3)

\* The set of the indices of the bits set in the mask m.
BitSet(m) == {i \in 0..3 : Bit(m, i) = 1}

\* The elements of a set of integers as an ascending sequence: the order in
\* which xe::bit_scan_forward visits the bits of a mask, and in which a loop
\* over i = 0..3 visits them.
RECURSIVE Ascending(_)
Ascending(S) ==
    IF S = {} THEN <<>>
    ELSE LET m == CHOOSE x \in S : \A y \in S : x <= y
         IN  <<m>> \o Ascending(S \ {m})

\* OpBitFieldUExtract: the width bits of the word from bit offset on.
BitFieldUExtract(word, offset, width) ==
    IF offset >= 16
    THEN (word[1] \div Pow2(offset - 16)) % Pow2(width)
    ELSE ((word[2] \div Pow2(offset)) % Pow2(width))
         + (IF offset + width > 16
            THEN (word[1] % Pow2(offset + width - 16)) * Pow2(16 - offset)
            ELSE 0)

\* OpBitFieldSExtract: the same bits, sign-extended from bit width - 1.
BitFieldSExtract(word, offset, width) ==
    LET u == BitFieldUExtract(word, offset, width)
    IN  IF u >= Pow2(width - 1) THEN u - Pow2(width) ELSE u

(* ------------------------------------------------------------------ *)
(* Rational numbers n/d (d > 0, lowest terms): the values of the float *)
(* operations of the emitted code, computed without rounding.          *)
(* ------------------------------------------------------------------ *)
Abs(x) == IF x < 0 THEN -x ELSE x

RECURSIVE Gcd(_, _)
Gcd(a, b) == IF b = 0 THEN a ELSE Gcd(b, a % b)

Rat(n, d) ==
    LET g == Gcd(Abs(n), d)
    IN  [n |-> n \div g, d |-> d \div g]

RatMul(a, b) ==
    LET g1 == Gcd(Abs(a.n), b.d)
        g2 == Gcd(Abs(b.n), a.d)
    IN  Rat((a.n \div g1) * (b.n \div g2), (a.d \div g2) * (b.d \div g1))

RatAdd(a, b) ==
    LET g == Gcd(a.d, b.d)
    IN  Rat(a.n * (b.d \div g) + b.n * (a.d \div g), (a.d \div g) * b.d)

RatLess(a, b) == a.n * b.d < b.n * a.d

RatMax(a, b) == IF RatLess(a, b) THEN b ELSE a

(* ------------------------------------------------------------------ *)
(* Vertex formats (xenos::VertexFormat) and their layout.              *)
(* ------------------------------------------------------------------ *)
PackedFormats ==
    {"k_8_8_8_8", "k_2_10_10_10", "k_10_11_11", "k_11_11_10", "k_16_16",
     "k_16_16_16_16"}
HalfFloatFormats == {"k_16_16_FLOAT", "k_16_16_16_16_FLOAT"}
Int32Formats == {"k_32", "k_32_32", "k_32_32_32_32"}
Float32Formats ==
    {"k_32_FLOAT", "k_32_32_FLOAT", "k_32_32_32_32_FLOAT", "k_32_32_32_FLOAT"}
HandledFormats ==
    PackedFormats \cup HalfFloatFormats \cup Int32Formats \cup Float32Formats
\* "kUndefined" stands for every format the switch has no case for.
VertexFormats == HandledFormats \cup {"kUndefined"}

RfModes == {"kZeroClampMinusOne", "kNoZero"}

\* xenos::GetVertexFormatComponentCount: the number of components a format
\* has; 0 for a format that is not handled.
GetVertexFormatComponentCount(format) ==
    CASE format \in {"k_32", "k_32_FLOAT"} -> 1
      [] format \in {"k_16_16", "k_32_32", "k_16_16_FLOAT", "k_32_32_FLOAT"} -> 2
      [] format \in {"k_10_11_11", "k_11_11_10", "k_32_32_32_FLOAT"} -> 3
      [] format \in {"k_8_8_8_8", "k_2_10_10_10", "k_16_16_16_16",
                     "k_32_32_32_32", "k_16_16_16_16_FLOAT",
                     "k_32_32_32_32_FLOAT"} -> 4
      [] OTHER -> 0

\* Whether any of the components of the mask `of` is used.
AnyUsed(used_components, of) ==
    IF And4(used_components, of) # 0 THEN 1 ELSE 0

\* xenos::GetVertexFormatNeededWords: the mask of the words of an element
\* that hold a used component.
GetVertexFormatNeededWords(format, used_components) ==
    CASE format \in {"k_8_8_8_8", "k_2_10_10_10"} ->
            AnyUsed(used_components, 15)
      [] format \in {"k_10_11_11", "k_11_11_10"} ->
            AnyUsed(used_components, 7)
      [] format \in {"k_16_16", "k_16_16_FLOAT"} ->
            AnyUsed(used_components, 3)
      [] format \in {"k_16_16_16_16", "k_16_16_16_16_FLOAT"} ->
            AnyUsed(used_components, 3) + 2 * AnyUsed(used_components, 12)
      [] format \in {"k_32", "k_32_FLOAT"} -> And4(used_components, 1)
      [] format \in {"k_32_32", "k_32_32_FLOAT"} -> And4(used_components, 3)
      [] format = "k_32_32_32_FLOAT" -> And4(used_components, 7)
      [] format \in {"k_32_32_32_32", "k_32_32_32_32_FLOAT"} ->
            And4(used_components, 15)
      [] OTHER -> 0

\* format_is_packed, as the switch sets it.
FormatIsPacked(format) == format \in PackedFormats

\* packed_widths[0..3] as the switch fills it (zero where not assigned).
PackedWidths(format) ==
    CASE format = "k_8_8_8_8"     -> <<8, 8, 8, 8>>
      [] format = "k_2_10_10_10"  -> <<10, 10, 10, 2>>
      [] format = "k_10_11_11"    -> <<11, 11, 10, 0>>
      [] format = "k_11_11_10"    -> <<10, 11, 11, 0>>
      [] format = "k_16_16"       -> <<16, 16, 0, 0>>
      [] format = "k_16_16_16_16" -> <<16, 16, 16, 16>>
      [] OTHER                    -> <<0, 0, 0, 0>>

\* packed_offsets with the components of k_8_8_8_8 taken from the most
\* significant byte down.
PackedOffsets_Reversed(format) ==
    CASE format = "k_8_8_8_8"     -> <<24, 16, 8, 0>>
      [] format = "k_2_10_10_10"  -> <<0, 10, 20, 30>>
      [] format = "k_10_11_11"    -> <<0, 11, 22, 0>>
      [] format = "k_11_11_10"    -> <<0, 10, 21, 0>>
      [] format = "k_16_16"       -> <<0, 16, 0, 0>>
      [] format = "k_16_16_16_16" -> <<0, 16, 0, 16>>
      [] OTHER                    -> <<0, 0, 0, 0>>

\* packed_offsets[0..3].
PackedOffsets(format) ==
    CASE format = "k_8_8_8_8"     -> <<0, 8, 16, 24>>
      [] format = "k_2_10_10_10"  -> <<0, 10, 20, 30>>
      [] format = "k_10_11_11"    -> <<0, 11, 22, 0>>
      [] format = "k_11_11_10"    -> <<0, 10, 21, 0>>
      [] format = "k_16_16"       -> <<0, 16, 0, 0>>
      [] format = "k_16_16_16_16" -> <<0, 16, 0, 16>>
      [] OTHER                    -> <<0, 0, 0, 0>>

\* packed_words[0..3].
PackedWords(format) ==
    CASE format = "k_16_16_16_16" -> <<0, 0, 1, 1>>
      [] OTHER                    -> <<0, 0, 0, 0>>

(* ------------------------------------------------------------------ *)
(* ProcessVertexFetchInstruction, piece by piece.                      *)
(*                                                                     *)
(* instr: the fields of ParsedVertexFetchInstruction the decoding reads *)
(*   (used_result_components is instr.result.GetUsedResultComponents); *)
(*   is_predicated and predicate_condition are given beside it.        *)
(* env: what the emitted code reads when it runs: base, the value of   *)
(*   fetch constant word 0 >> 2; index2, twice the value of the index  *)
(*   operand; words[w + 1], the endian-swapped value loaded for word w *)
(*   of the element; asserts, whether the build checks assertions.     *)
(*                                                                     *)
(* The local variables of the handler are the fields of a record c,    *)
(* which Locals builds in the order the handler assigns them; each     *)
(* definition below reads the variables assigned before it from c.     *)
(* ------------------------------------------------------------------ *)

\* An emitted instruction: its opcode (or the helper emitting it) and the
\* number of components of its result type (0 when it has none).
Op(name, n) == [op |-> name, n |-> n]

RECURSIVE Flatten(_)
Flatten(ss) == IF ss = <<>> THEN <<>> ELSE Head(ss) \o Flatten(Tail(ss))

\* needed_words.
NeededWords(instr) ==
    GetVertexFormatNeededWords(instr.data_format, instr.used_result_components)

\* The word indices in the order the loading loop visits them.
LoadedWords(needed_words) == Ascending(BitSet(needed_words))

\* word_composite_indices[0..3] after the loading loop: for a needed word, the
\* value of word_count when it was visited; 0 (the initializer) otherwise.
WordCompositeIndices(c) ==
    [w \in 0..3 |->
        IF Bit(c.needed_words, w) = 1
        THEN (CHOOSE j \in 1..Len(c.loaded) : c.loaded[j] = w) - 1
        ELSE 0]

\* `words` after the endian swap: the loaded words in the order loaded.
Words(c) == [j \in 1..Len(c.loaded) |-> c.env.words[c.loaded[j] + 1]]

\* used_format_components as it would be without the mask of the components
\* the format has.
UsedFormatComponents_AllRequested(instr) == instr.used_result_components

\* used_format_components.
UsedFormatComponents(instr) ==
    And4(instr.used_result_components,
         Pow2(GetVertexFormatComponentCount(instr.data_format)) - 1)

\* The components the extraction loop of the packed formats visits, in its
\* order.
ExtractedComponents(c) == Ascending(BitSet(c.used_format_components))

\* extracted_widths[0 .. extracted_component_count - 1].
ExtractedWidths(c) ==
    [j \in 1..Len(c.extracted_components) |->
        PackedWidths(c.instr.data_format)[c.extracted_components[j] + 1]]

\* packed_scales_same after the loop over the extracted components.
PackedScalesSame(c) ==
    \A j \in 1..c.used_format_component_count :
        c.extracted_widths[j] # c.extracted_widths[1]

Locals0(instr, env) ==
    [instr |-> instr, env |-> env, needed_words |-> NeededWords(instr),
     used_format_components |-> UsedFormatComponents(instr)]

Locals1(c) ==
    c @@ [loaded |-> LoadedWords(c.needed_words),
          used_format_component_count |-> BitCount(c.used_format_components)]

Locals2(c) ==
    c @@ [word_count |-> Len(c.loaded),
          word_composite_indices |-> WordCompositeIndices(c),
          words |-> Words(c),
          extracted_components |-> ExtractedComponents(c)]

Locals3(c) == c @@ [extracted_widths |-> ExtractedWidths(c)]

Locals4(c) == c @@ [packed_scales_same |-> PackedScalesSame(c)]

\* The local variables of the handler for the instruction.
Locals(instr, env) == Locals4(Locals3(Locals2(Locals1(Locals0(instr, env)))))

(* --- the address and the loading of the words --- *)

\* The conversion of the index as it would be if it rounded to the nearest
\* even integer.
ConvertedIndex_NearestEven(c) ==
    IF c.instr.is_index_rounded
    THEN IF c.env.index2 % 2 = 0 THEN c.env.index2 \div 2
         ELSE IF (c.env.index2 \div 2) % 2 = 0 THEN c.env.index2 \div 2
         ELSE c.env.index2 \div 2 + 1
    ELSE c.env.index2 \div 2

\* The index converted to an integer: floor(index), or floor(index + 0.5).
ConvertedIndex(c) ==
    IF c.instr.is_index_rounded THEN (c.env.index2 + 1) \div 2
    ELSE c.env.index2 \div 2

\* `address` after the indexing.
ElementAddress(c) ==
    IF c.instr.stride # 0
    THEN c.env.base
         + (IF c.instr.stride > 1
            THEN ConvertedIndex(c) * c.instr.stride
            ELSE ConvertedIndex(c))
    ELSE c.env.base

\* word_address of the word word_index.
WordAddress(c, word_index) ==
    ElementAddress(c) + (c.instr.offset + word_index)

\* The instructions computing `address`.
AddressOps(c) ==
    <<Op("OpLoad fetch_constant_word_0", 1), Op("OpShiftRightLogical", 1),
      Op("OpBitcast", 1)>>
    \o (IF c.instr.stride # 0
        THEN <<Op("LoadOperandStorage", 4), Op("GetOperandComponents", 1)>>
             \o (IF c.instr.is_index_rounded THEN <<Op("OpFAdd", 1)>>
                 ELSE <<>>)
             \o <<Op("Floor", 1), Op("OpConvertFToS", 1)>>
             \o (IF c.instr.stride > 1 THEN <<Op("OpIMul", 1)>> ELSE <<>>)
             \o <<Op("OpIAdd", 1)>>
        ELSE <<>>)

\* The instructions loading the needed words and building `words`.
LoadOps(c) ==
    Flatten([j \in 1..c.word_count |->
        (IF c.instr.offset + c.loaded[j] # 0 THEN <<Op("OpIAdd", 1)>>
         ELSE <<>>)
        \o <<Op("LoadUint32FromSharedMemory", 1)>>])
    \o (IF c.word_count > 1
        THEN <<Op("OpCompositeConstruct", c.word_count)>>
        ELSE <<>>)

\* The instructions swapping the bytes of `words`.
EndianOps(c) ==
    <<Op("OpLoad fetch_constant_word_1", 1), Op("OpBitwiseAnd", 1),
      Op("EndianSwap32Uint", c.word_count)>>

\* A component of a result vector.
\*   kind "float": the number n/d * 2^exp.
\*   kind "f32": the 32 bits `bits` read as a float, times 2^exp.
\*   kind "f16": the low 16 bits of `bits` read as a half float, times 2^exp.
\*   kind "u32", "s32": the 32 bits `bits` converted from an unsigned or a
\*     signed integer, scaled as `norm` says, times 2^exp.
\* comp is the component of the format it was decoded from (-1: none).
Component(kind, comp, n, d, bits, norm) ==
    [kind |-> kind, comp |-> comp, n |-> n, d |-> d, bits |-> bits,
     norm |-> norm, exp |-> 0]

ConstFloat0 == Component("float", -1, 0, 1, <<0, 0>>, "none")

\* The word taken as it would be if the position were ignored.
ExtractWord_First(c, index) == c.words[1]

\* The word the decoding takes at position `index` of `words`: a composite
\* extract when more than one word was loaded, `words` itself otherwise.
ExtractWord(c, index) ==
    IF c.word_count > 1 THEN c.words[index + 1] ELSE c.words[1]

(* --- k_16_16_FLOAT, k_16_16_16_16_FLOAT --- *)

\* word_needed_components of the iteration i of the loop over the two words.
HalfWordNeededComponents(c, i) ==
    (c.used_format_components \div Pow2(i * 2)) % 4

\* The two lanes of a word unpacked, as components 2i and 2i + 1.
UnpackHalf2x16(word, i) ==
    <<Component("f16", i * 2, 0, 1, <<0, word[2]>>, "none"),
      Component("f16", i * 2 + 1, 0, 1, <<0, word[1]>>, "none")>>

\* The choice of the lane as it would be with the two indices exchanged.
HalfLanes_Swapped(lanes, needed) ==
    IF needed = 3 THEN lanes
    ELSE IF Bit(needed, 0) = 1 THEN <<lanes[2]>>
    ELSE <<lanes[1]>>

\* What is kept of the unpacked lanes when the components `needed` (a 2-bit
\* mask, not 0) of the word are needed.
HalfLanes(lanes, needed) ==
    IF needed = 3 THEN lanes
    ELSE IF Bit(needed, 0) = 1 THEN <<lanes[1]>>
    ELSE <<lanes[2]>>

\* word_needed_component_values[i]: the lanes taken from word i, <<>> when
\* none is needed (spv::NoResult).
HalfWordValues(c, i) ==
    IF HalfWordNeededComponents(c, i) = 0 THEN <<>>
    ELSE HalfLanes(
            UnpackHalf2x16(ExtractWord(c, c.word_composite_indices[i]), i),
            HalfWordNeededComponents(c, i))

HalfWordOps(c, i) ==
    IF HalfWordNeededComponents(c, i) = 0 THEN <<>>
    ELSE (IF c.word_count > 1
          THEN <<Op("OpCompositeExtract", 1)>> ELSE <<>>)
         \o <<Op("UnpackHalf2x16", 2)>>
         \o (IF HalfWordNeededComponents(c, i) # 3
             THEN <<Op("OpCompositeExtract", 1)>> ELSE <<>>)

\* `result`: the one vector there is, or the two concatenated.
HalfConcat(v0, v1) ==
    IF v1 = <<>> THEN v0
    ELSE IF v0 = <<>> THEN v1
    ELSE v0 \o v1

HalfFloatResult(c) == HalfConcat(HalfWordValues(c, 0), HalfWordValues(c, 1))

HalfFloatOps(c) ==
    HalfWordOps(c, 0) \o HalfWordOps(c, 1)
    \o (IF /\ HalfWordNeededComponents(c, 0) # 0
           /\ HalfWordNeededComponents(c, 1) # 0
        THEN <<Op("OpCompositeConstruct", c.used_format_component_count)>>
        ELSE <<>>)

(* --- k_32, k_32_32, k_32_32_32_32 --- *)

\* The scale and bias applied to a converted 32-bit integer.
Int32Norm(instr) ==
    IF instr.is_integer THEN "none"
    ELSE IF instr.is_signed
         THEN CASE instr.signed_rf_mode = "kZeroClampMinusOne" ->
                       "* 1/2147483647"
                [] instr.signed_rf_mode = "kNoZero" ->
                       "* 1/2147483647.5 + 0.5/2147483647.5"
                [] OTHER -> "none"
         ELSE "* 1/4294967295"

Int32Result(c) ==
    [j \in 1..c.word_count |->
        Component(IF c.instr.is_signed THEN "s32" ELSE "u32", c.loaded[j],
                  0, 1, c.words[j], Int32Norm(c.instr))]

\* The instructions of the case, n being used_format_component_count.
Int32OpsOf(instr, n) ==
    (IF instr.is_signed
     THEN <<Op("OpBitcast", n), Op("OpConvertSToF", n)>>
     ELSE <<Op("OpConvertUToF", n)>>)
    \o (IF instr.is_integer THEN <<>>
        ELSE IF instr.is_signed
        THEN CASE instr.signed_rf_mode = "kZeroClampMinusOne" ->
                      <<Op("OpVectorTimesScalar", n)>>
               [] instr.signed_rf_mode = "kNoZero" ->
                      <<Op("OpVectorTimesScalar", n), Op("OpFAdd", n)>>
               [] OTHER -> <<>>
        ELSE <<Op("OpVectorTimesScalar", n)>>)

Int32Ops(c) == Int32OpsOf(c.instr, c.used_format_component_count)

(* --- k_32_FLOAT .. k_32_32_32_32_FLOAT --- *)

Float32Result(c) ==
    [j \in 1..c.word_count |->
        Component("f32", c.loaded[j], 0, 1, c.words[j], "none")]

\* The 32-bit float case as it would be if it went the way of the 32-bit
\* integer case.
Float32Ops_Converting(c) == Int32Ops(c)

Float32Ops(c) == <<Op("OpBitcast", c.word_count)>>

(* --- the packed formats --- *)

\* The integer extracted from the word: the bits of the field, sign-extended
\* for a signed instruction.
BitFieldExtract(is_signed, word, offset, width) ==
    IF is_signed
    THEN BitFieldSExtract(word, offset, width)
    ELSE BitFieldUExtract(word, offset, width)

\* The integer extracted for the component i of the format.
ExtractedValue(c, i) ==
    BitFieldExtract(c.instr.is_signed,
        ExtractWord(c, c.word_composite_indices
                           [PackedWords(c.instr.data_format)[i + 1]]),
        PackedOffsets(c.instr.data_format)[i + 1],
        PackedWidths(c.instr.data_format)[i + 1])

\* packed_scale_inv as it would be if the signed case took the unsigned
\* maximum.
PackedScaleInv2_Unsigned(instr, extracted_width) ==
    2 * (Pow2(extracted_width) - 1)

\* Twice packed_scale_inv for a component of the width extracted_width.
PackedScaleInv2(instr, extracted_width) ==
    IF instr.is_signed
    THEN 2 * (Pow2(extracted_width - 1) - 1)
         + (IF instr.signed_rf_mode = "kNoZero" THEN 1 ELSE 0)
    ELSE 2 * (Pow2(extracted_width) - 1)

\* packed_scales[j - 1] = 1.0f / packed_scale_inv.
PackedScale(c, j) == Rat(2, PackedScaleInv2(c.instr, c.extracted_widths[j]))

\* packed_scale_mul_op.
PackedScaleMulOp(c) ==
    IF c.used_format_component_count > 1
    THEN IF c.packed_scales_same THEN "OpVectorTimesScalar" ELSE "OpFMul"
    ELSE "OpFMul"

\* const_packed_scale as it would be if packed_scales[0] were applied to every
\* component.
PackedScaleApplied_First(c, j) == PackedScale(c, 1)

\* The component j - 1 of const_packed_scale as the multiplication applies it:
\* packed_scales[0] for every component, unless a vector of the scales of the
\* components was made.
PackedScaleApplied(c, j) ==
    PackedScale(c, IF c.used_format_component_count > 1
                      /\ ~c.packed_scales_same
                   THEN j ELSE 1)

\* The normalization as it would be without the clamp and the bias.
Normalized_NoBias(instr, v, applied, scale) ==
    IF instr.is_integer THEN v ELSE RatMul(v, applied)

\* The normalization of the extracted integer v (as a float): scaled times
\* `applied`, then clamped or biased by half of `scale`.
Normalized(instr, v, applied, scale) ==
    IF instr.is_integer THEN v
    ELSE IF ~instr.is_signed THEN RatMul(v, applied)
    ELSE CASE instr.signed_rf_mode = "kZeroClampMinusOne" ->
                  RatMax(RatMul(v, applied), Rat(-1, 1))
           [] instr.signed_rf_mode = "kNoZero" ->
                  RatAdd(RatMul(v, applied), RatMul(Rat(1, 2), scale))
           [] OTHER -> RatMul(v, applied)

\* The value of the component j - 1 of `result` after the normalization.
PackedNormalized(c, j) ==
    Normalized(c.instr, Rat(ExtractedValue(c, c.extracted_components[j]), 1),
               PackedScaleApplied(c, j), PackedScale(c, j))

\* A number as a component decoded from the component comp of the format.
FloatComponent(comp, r) == Component("float", comp, r.n, r.d, <<0, 0>>, "none")

PackedResult(c) ==
    [j \in 1..c.used_format_component_count |->
        FloatComponent(c.extracted_components[j], PackedNormalized(c, j))]

\* The position in `words` of the word of the component at position k of the
\* extraction loop.
ExtractionWordIndex(c, k) ==
    c.word_composite_indices
        [PackedWords(c.instr.data_format)[c.extracted_components[k] + 1]]

\* Whether the extraction of the component at position j of the loop emits a
\* composite extract first (extraction_word_current_index changes).
ExtractsWord(c, j) ==
    /\ c.word_count > 1
    /\ (j = 1 \/ ExtractionWordIndex(c, j) # ExtractionWordIndex(c, j - 1))

\* The instructions after the extraction, n being
\* used_format_component_count.
PackedConvertOps(instr, n, mul_op) ==
    (IF n > 1 THEN <<Op("OpCompositeConstruct", n)>> ELSE <<>>)
    \o <<Op(IF instr.is_signed THEN "OpConvertSToF" ELSE "OpConvertUToF", n)>>
    \o (IF instr.is_integer THEN <<>>
        ELSE <<Op(mul_op, n)>>
             \o (IF ~instr.is_signed THEN <<>>
                 ELSE CASE instr.signed_rf_mode = "kZeroClampMinusOne" ->
                               <<Op("FMax", n)>>
                        [] instr.signed_rf_mode = "kNoZero" ->
                               <<Op("OpFAdd", n)>>
                        [] OTHER -> <<>>))

PackedOps(c) ==
    (IF c.instr.is_signed THEN <<Op("OpBitcast", c.word_count)>> ELSE <<>>)
    \o Flatten([j \in 1..c.used_format_component_count |->
          (IF ExtractsWord(c, j)
           THEN <<Op("OpCompositeExtract", 1)>> ELSE <<>>)
          \o <<Op(IF c.instr.is_signed THEN "OpBitFieldSExtract"
                  ELSE "OpBitFieldUExtract", 1)>>])
    \o PackedConvertOps(c.instr, c.used_format_component_count,
                        PackedScaleMulOp(c))

(* --- the whole handler --- *)

\* `result` after the format switch and the packed decoding; <<>> is
\* spv::NoResult.
DecodedResult(c) ==
    CASE c.instr.data_format \in PackedFormats -> PackedResult(c)
      [] c.instr.data_format \in HalfFloatFormats -> HalfFloatResult(c)
      [] c.instr.data_format \in Int32Formats -> Int32Result(c)
      [] c.instr.data_format \in Float32Formats -> Float32Result(c)
      [] OTHER -> <<>>

DecodeOps(c) ==
    CASE c.instr.data_format \in PackedFormats -> PackedOps(c)
      [] c.instr.data_format \in HalfFloatFormats -> HalfFloatOps(c)
      [] c.instr.data_format \in Int32Formats -> Int32Ops(c)
      [] c.instr.data_format \in Float32Formats -> Float32Ops(c)
      [] OTHER -> <<>>

\* `result` after the exponent bias.
ExpAdjusted(result, exp_adjust) ==
    IF exp_adjust # 0
    THEN [j \in 1..Len(result) |-> [result[j] EXCEPT !.exp = exp_adjust]]
    ELSE result

\* used_missing_components.
UsedMissingComponents(c) ==
    AndNot4(c.instr.used_result_components, c.used_format_components)

\* The padding as it would be with the zeros before the decoded components.
Padded_ZerosFirst(result, used_missing_components) ==
    IF result # <<>> /\ used_missing_components # 0
    THEN [j \in 1..BitCount(used_missing_components) |-> ConstFloat0] \o result
    ELSE result

\* `result` after the padding with zeros.
Padded(result, used_missing_components) ==
    IF result # <<>> /\ used_missing_components # 0
    THEN result \o [j \in 1..BitCount(used_missing_components) |-> ConstFloat0]
    ELSE result

\* The value given to StoreResult when words were loaded.
FinalResult(c) ==
    Padded(ExpAdjusted(DecodedResult(c), c.instr.exp_adjust),
           UsedMissingComponents(c))

\* The instructions after the decoding, for the decoded `result`.
FinishOpsOf(c, result) ==
    IF result = <<>> THEN <<>>
    ELSE (IF c.instr.exp_adjust # 0
          THEN <<Op("OpVectorTimesScalar", Len(result))>> ELSE <<>>)
         \o (IF UsedMissingComponents(c) # 0
             THEN <<Op("OpCompositeConstruct",
                       BitCount(c.instr.used_result_components))>>
             ELSE <<>>)

FinishOps(c) == FinishOpsOf(c, DecodedResult(c))

\* Whether an assertion of the handler fails for the instruction.
AssertionFails(c) ==
    \/ c.used_format_components = 0
    \/ c.instr.data_format \notin HandledFormats
    \/ /\ c.instr.data_format \in Int32Formats \cup Float32Formats
       /\ c.used_format_components # c.needed_words
    \/ /\ c.instr.data_format \in Int32Formats \cup PackedFormats
       /\ ~c.instr.is_integer /\ c.instr.is_signed
       /\ c.instr.signed_rf_mode \notin RfModes

\* The addresses the words are loaded from, in the order loaded.
Addresses(c) == [j \in 1..c.word_count |-> WordAddress(c, c.loaded[j])]

\* The handler as it would be without the early return for needed_words = 0.
FetchOutcomeOf_AlwaysLoading(c) ==
    [done |-> TRUE,
     ops |-> AddressOps(c) \o LoadOps(c) \o EndianOps(c),
     loaded |-> c.loaded,
     addresses |-> Addresses(c),
     stored |-> << <<>> >>]

\* What the handler has done when it returns.
\*   ops:     the instructions emitted, in order
\*   loaded:  the words loaded from the shared memory, in order
\*   addresses: the address each of them was loaded from
\*   stored:  the values given to StoreResult, one per call
FetchOutcomeOf(c) ==
    IF c.needed_words = 0
    THEN [done |-> TRUE, ops |-> <<>>, loaded |-> <<>>, addresses |-> <<>>,
          stored |-> << <<>> >>]
    ELSE [done |-> TRUE,
          ops |-> AddressOps(c) \o LoadOps(c) \o EndianOps(c)
                  \o DecodeOps(c) \o FinishOps(c),
          loaded |-> c.loaded,
          addresses |-> Addresses(c),
          stored |-> <<FinalResult(c)>>]

FetchOutcome(instr, env) == FetchOutcomeOf(Locals(instr, env))

\* Whether the handler stops at an assertion instead.
FetchAsserts(c) ==
    c.needed_words # 0 /\ AssertionFails(c) /\ c.env.asserts

NoFetch ==
    [done |-> FALSE, ops |-> <<>>, loaded |-> <<>>, addresses |-> <<>>,
     stored |-> <<>>]

(* ------------------------------------------------------------------ *)
(* The inputs the specifications draw from.                            *)
(* ------------------------------------------------------------------ *)
Instr(format, used, signed, integer, rf, exp) ==
    [data_format |-> format, used_result_components |-> used,
     is_signed |-> signed, is_integer |-> integer, signed_rf_mode |-> rf,
     exp_adjust |-> exp, stride |-> 0, offset |-> 0,
     is_index_rounded |-> FALSE]

Env(w0, w1) ==
    [base |-> 0, index2 |-> 0, words |-> <<w0, w1, w1, w0>>, asserts |-> TRUE]

\* 32-bit words <<hi, lo>>: 0, 0xFFFFFFFF, 0x40FF8000, 0x80007FFF, 0x00018001.
SampleWords ==
    {<<0, 0>>, <<65535, 65535>>, <<16639, 32768>>, <<32768, 32767>>,
     <<1, 32769>>}

\* Exponent biases tried.
ExpAdjusts == {0, 2}

\* Whether i is a vertex fetch of SpecFetch: any format, any mask of used
\* result components and any combination of the attributes of the decoding.
DecodeInput(i) ==
    \E f \in VertexFormats, m \in 0..15, sg \in BOOLEAN, int \in BOOLEAN,
       rf \in RfModes, e \in ExpAdjusts,
       w0 \in SampleWords, w1 \in {<<65535, 65535>>, <<16639, 32768>>} :
        i = [instr |-> Instr(f, m, sg, int, rf, e), env |-> Env(w0, w1)]

\* The vertex fetch the instruction stream of Spec may hold (with any
\* predication): k_16_16 with x, y, z used, so that it loads, decodes and pads.
StreamInputs ==
    { [instr |-> Instr("k_16_16", 7, TRUE, FALSE, "kNoZero", 0),
       env |-> Env(<<16639, 32768>>, <<0, 0>>)] }

NoInput ==
    [instr |-> Instr("kUndefined", 0, FALSE, FALSE, "kZeroClampMinusOne", 0),
     env |-> Env(<<0, 0>>, <<0, 0>>)]

(* ------------------------------------------------------------------ *)
(* The translator callbacks.                                           *)
(* ------------------------------------------------------------------ *)
NoExec == [valid |-> FALSE, type |-> "kUnconditional", index |-> 0,
           condition |-> FALSE]

\* The record of a callback: its name and arguments (those it does not read
\* left at their defaults), and what the claims compare the state after it
\* with:
\*   before: the merge block of the conditional the callback updates, as it
\*     was before the call (the exec-level one for an exec-begin, the
\*     instruction-level one for an instruction);
\*   before_condition: the expected predicate value of that conditional, for
\*     an instruction with an open instruction-level conditional;
\*   same_as_prev: for an exec-begin, whether the exec-begin before it had the
\*     same discriminator and condition, with only instructions between;
\*   written: whether the predicate was written since that exec-begin (for an
\*     exec-begin), since `before` was opened (for an instruction).
Callback(op, type, index, condition, predicated) ==
    LET instruction == op \in {"alu", "vfetch"}
        before == IF op = "exec_begin" THEN self.cf_exec_conditional_merge_
                  ELSE IF instruction
                       THEN self.cf_instruction_predicate_merge_
                       ELSE NullBlock
    IN  [op |-> op, type |-> type,
         index |-> IF type = "kConditional" THEN index ELSE 0,
         condition |-> (type # "kUnconditional" \/ predicated) /\ condition,
         predicated |-> predicated,
         before |-> before,
         before_condition |->
             /\ instruction
             /\ before # NullBlock
             /\ self.cf_instruction_predicate_condition_,
         same_as_prev |->
             /\ op = "exec_begin"
             /\ prev_exec.valid
             /\ type # "kUnconditional"
             /\ prev_exec.type # "kUnconditional"
             /\ ExecDiscriminator(prev_exec.type, prev_exec.index)
                    = ExecDiscriminator(type, index)
             /\ prev_exec.condition = condition,
         written |->
             \/ op = "exec_begin" /\ written_since.exec
             \/ instruction /\ written_since.instr]

NoCallback ==
    [op |-> "start", type |-> "kUnconditional", index |-> 0,
     condition |-> FALSE, predicated |-> FALSE, before |-> NullBlock,
     before_condition |-> FALSE, same_as_prev |-> FALSE, written |-> FALSE]

\* The exec-begin as prev_exec keeps it.
ExecRecord(type, index, condition) ==
    [valid |-> TRUE, type |-> type,
     index |-> IF type = "kConditional" THEN index ELSE 0,
     condition |-> type # "kUnconditional" /\ condition]

Translating == status = "translating"

\* The builder has a block left for a conditional the callback may open.
BlockLeft == self.next_block <= MaxBlocks

\* written_since after an instruction: a conditional opened by it has seen
\* no predicate write, unless the instruction itself writes the predicate.
WrittenAfter(s, predicate_written) ==
    [exec |-> written_since.exec \/ predicate_written,
     instr |-> /\ s.cf_instruction_predicate_merge_ # NullBlock
               /\ \/ predicate_written
                  \/ /\ written_since.instr
                     /\ s.cf_instruction_predicate_merge_
                           = self.cf_instruction_predicate_merge_]

Init ==
    /\ self = InitSelf
    /\ status = "translating"
    /\ fault = "none"
    /\ module = "none"
    /\ last = NoCallback
    /\ prev_exec = NoExec
    /\ written_since = [exec |-> FALSE, instr |-> FALSE]
    /\ input = NoInput
    /\ fetch = NoFetch

ProcessLabel(cf_index) ==
    /\ Translating
    /\ self' = [CloseExecConditionals(self) EXCEPT
                   !.labels = @ \cup {cf_index},
                   !.jump_targets = @ \ {cf_index}]
    /\ last' = Callback("label", "kUnconditional", cf_index, FALSE, FALSE)
    /\ prev_exec' = NoExec
    /\ written_since' = [exec |-> FALSE, instr |-> FALSE]
    /\ UNCHANGED <<status, fault, module, input, fetch>>

ProcessExecInstructionBegin(type, bool_constant_index, condition) ==
    /\ Translating
    /\ BlockLeft
    /\ self' = UpdateExecConditionals(self, type, bool_constant_index,
                                      condition)
    /\ last' = Callback("exec_begin", type, bool_constant_index, condition,
                        FALSE)
    /\ prev_exec' = ExecRecord(type, bool_constant_index, condition)
    /\ written_since' =
           [exec |-> FALSE,
            instr |-> /\ written_since.instr
                      /\ self'.cf_instruction_predicate_merge_ # NullBlock]
    /\ UNCHANGED <<status, fault, module, input, fetch>>

ProcessExecInstructionEnd ==
    /\ Translating
    /\ last' = Callback("exec_end", "kUnconditional", 0, FALSE, FALSE)
    /\ UNCHANGED <<self, status, fault, module, prev_exec, written_since,
                   input, fetch>>

\* A fatal condition: the translation of the shader is aborted.
Abort(condition) ==
    /\ status' = "fatal"
    /\ fault' = condition
    /\ module' = "none"

ProcessLoopStartInstruction ==
    /\ Translating
    /\ self.loop_depth < MaxLoopDepth
    /\ self' = [CloseExecConditionals(self) EXCEPT !.loop_depth = @ + 1]
    /\ last' = Callback("loop_start", "kUnconditional", 0, FALSE, FALSE)
    /\ prev_exec' = NoExec
    /\ written_since' = [exec |-> FALSE, instr |-> FALSE]
    /\ UNCHANGED <<status, fault, module, input, fetch>>

ProcessLoopEndInstruction ==
    /\ Translating
    /\ last' = Callback("loop_end", "kUnconditional", 0, FALSE, FALSE)
    /\ prev_exec' = NoExec
    /\ written_since' = [exec |-> FALSE, instr |-> FALSE]
    /\ IF self.loop_depth = 0
       THEN /\ Abort("MalformedControlFlow")
            /\ self' = self
       ELSE /\ self' = [CloseExecConditionals(self) EXCEPT
                           !.loop_depth = @ - 1]
            /\ UNCHANGED <<status, fault, module>>
    /\ UNCHANGED <<input, fetch>>

ProcessJumpInstruction(type, bool_constant_index, condition, target) ==
    /\ Translating
    /\ BlockLeft
    /\ self' = [UpdateExecConditionals(CloseInstructionPredication(self),
                                       type, bool_constant_index, condition)
                   EXCEPT !.jump_targets = @ \cup ({target} \ self.labels)]
    /\ last' = Callback("jump", type, bool_constant_index, condition, FALSE)
    /\ prev_exec' = NoExec
    /\ written_since' = [exec |-> FALSE, instr |-> FALSE]
    /\ UNCHANGED <<status, fault, module, input, fetch>>

ProcessAluInstruction(predicated, condition, predicate_written) ==
    /\ Translating
    /\ BlockLeft
    /\ LET s == UpdateInstructionPredication(self, predicated, condition)
       IN  /\ self' = [s EXCEPT !.cf_exec_predicate_written_ =
                                    @ \/ predicate_written]
           /\ written_since' = WrittenAfter(s, predicate_written)
    /\ last' = Callback("alu", "kUnconditional", 0, condition, predicated)
    /\ UNCHANGED <<status, fault, module, prev_exec, input, fetch>>

ProcessVertexFetchInstruction(is_predicated, predicate_condition, i) ==
    /\ Translating
    /\ BlockLeft
    /\ LET s == UpdateInstructionPredication(self, is_predicated,
                                             predicate_condition)
       IN  /\ self' = s
           /\ written_since' = WrittenAfter(s, FALSE)
    /\ last' = Callback("vfetch", "kUnconditional", 0, predicate_condition,
                        is_predicated)
    /\ input' = i
    /\ IF FetchAsserts(Locals(i.instr, i.env))
       THEN /\ Abort("assertion")
            /\ fetch' = NoFetch
       ELSE /\ fetch' = FetchOutcome(i.instr, i.env)
            /\ UNCHANGED <<status, fault, module>>
    /\ UNCHANGED prev_exec

\* CompleteTranslation as it would be if it did not look at the jump targets.
CompleteTranslation_Unchecked ==
    /\ Translating
    /\ self' = CloseExecConditionals(self)
    /\ last' = Callback("complete", "kUnconditional", 0, FALSE, FALSE)
    /\ prev_exec' = NoExec
    /\ written_since' = [exec |-> FALSE, instr |-> FALSE]
    /\ IF self.loop_depth = 0
       THEN /\ status' = "complete"
            /\ module' = "bytes"
            /\ fault' = fault
       ELSE Abort("MalformedControlFlow")
    /\ UNCHANGED <<input, fetch>>

CompleteTranslation ==
    /\ Translating
    /\ self' = CloseExecConditionals(self)
    /\ last' = Callback("complete", "kUnconditional", 0, FALSE, FALSE)
    /\ prev_exec' = NoExec
    /\ written_since' = [exec |-> FALSE, instr |-> FALSE]
    /\ IF self.jump_targets = {} /\ self.loop_depth = 0
       THEN /\ status' = "complete"
            /\ module' = "bytes"
            /\ fault' = fault
       ELSE Abort("MalformedControlFlow")
    /\ UNCHANGED <<input, fetch>>

\* The (type, bool constant index, condition) of the execs and jumps of the
\* stream; the fields a type does not read are left at their defaults.
ExecArgs ==
    {<<"kUnconditional", 0, FALSE>>}
    \cup {<<"kConditional", index, condition>> :
              index \in BoolConstants, condition \in BOOLEAN}
    \cup {<<"kPredicated", 0, condition>> : condition \in BOOLEAN}

\* The (is_predicated, predicate_condition) of the instructions of the stream.
Predications == {<<FALSE, FALSE>>, <<TRUE, FALSE>>, <<TRUE, TRUE>>}

Next ==
    \/ \E cf_index \in Labels : ProcessLabel(cf_index)
    \/ \E a \in ExecArgs : ProcessExecInstructionBegin(a[1], a[2], a[3])
    \/ ProcessExecInstructionEnd
    \/ ProcessLoopStartInstruction
    \/ ProcessLoopEndInstruction
    \/ \E a \in ExecArgs, target \in Labels :
          ProcessJumpInstruction(a[1], a[2], a[3], target)
    \/ \E p \in Predications, predicate_written \in BOOLEAN :
          ProcessAluInstruction(p[1], p[2], predicate_written)
    \/ \E p \in Predications, i \in StreamInputs :
          ProcessVertexFetchInstruction(p[1], p[2], i)
    \/ CompleteTranslation

Spec == Init /\ [][Next]_vars

(* ------------------------------------------------------------------ *)
(* SpecFetch: one vertex fetch, one DecodeInput holds of, is translated *)
(* right after the start of the translation.                           *)
(* ------------------------------------------------------------------ *)
InitFetch ==
    /\ self = InitSelf
    /\ status = "translating"
    /\ fault = "none"
    /\ module = "none"
    /\ last = NoCallback
    /\ prev_exec = NoExec
    /\ written_since = [exec |-> FALSE, instr |-> FALSE]
    /\ DecodeInput(input)
    /\ fetch = NoFetch

NextFetch ==
    /\ last.op = "start"
    /\ ProcessVertexFetchInstruction(FALSE, FALSE, input)

SpecFetch == InitFetch /\ [][NextFetch]_vars

(* ------------------------------------------------------------------ *)
(* SpecFetchPredicated: as SpecFetch, the vertex fetch being predicated *)
(* in any way.                                                         *)
(* ------------------------------------------------------------------ *)
NextFetchPredicated ==
    /\ last.op = "start"
    /\ \E p \in Predications : ProcessVertexFetchInstruction(p[1], p[2], input)

SpecFetchPredicated == InitFetch /\ [][NextFetchPredicated]_vars

(* ------------------------------------------------------------------ *)
(* SpecAddress: one vertex fetch with any stride, offset, index and    *)
(* base address taken from the sets below.                             *)
(* ------------------------------------------------------------------ *)
AddressFormats == {"k_8_8_8_8", "k_16_16_16_16", "k_32_32_32_32_FLOAT"}
Strides == {0, 1, 3}
Offsets == {-2, 0, 1}
\* Twice the index: -1.5, -1, ..., 3.
Indexes2 == -3..6
Bases == {0, 7}

AddressInput(i) ==
    \E f \in AddressFormats, m \in 1..15, st \in Strides, off \in Offsets,
       rounded \in BOOLEAN, x \in Indexes2, b \in Bases :
        i = [instr |-> [Instr(f, m, FALSE, FALSE, "kZeroClampMinusOne", 0)
                           EXCEPT !.stride = st, !.offset = off,
                                  !.is_index_rounded = rounded],
             env |-> [Env(<<1, 32769>>, <<16639, 32768>>)
                         EXCEPT !.base = b, !.index2 = x]]

InitAddress ==
    /\ self = InitSelf
    /\ status = "translating"
    /\ fault = "none"
    /\ module = "none"
    /\ last = NoCallback
    /\ prev_exec = NoExec
    /\ written_since = [exec |-> FALSE, instr |-> FALSE]
    /\ AddressInput(input)
    /\ fetch = NoFetch

SpecAddress == InitAddress /\ [][NextFetch]_vars

(* ------------------------------------------------------------------ *)
(* SpecClamp: one vertex fetch of a packed format, signed, normalized, *)
(* kZeroClampMinusOne, all the components of the format used; both     *)
(* halves of the word hold the same 16 bits, and every 16-bit pattern  *)
(* is tried, so that every field takes every value of its width.       *)
(* ------------------------------------------------------------------ *)
ClampFormats == {"k_8_8_8_8", "k_2_10_10_10", "k_10_11_11", "k_16_16"}

ClampInput(i) ==
    \E f \in ClampFormats, u \in 0..(Pow2(16) - 1) :
        i = [instr |-> Instr(f, Pow2(GetVertexFormatComponentCount(f)) - 1,
                             TRUE, FALSE, "kZeroClampMinusOne", 0),
             env |-> Env(<<u, u>>, <<0, 0>>)]

InitClamp ==
    /\ self = InitSelf
    /\ status = "translating"
    /\ fault = "none"
    /\ module = "none"
    /\ last = NoCallback
    /\ prev_exec = NoExec
    /\ written_since = [exec |-> FALSE, instr |-> FALSE]
    /\ ClampInput(input)
    /\ fetch = NoFetch

SpecClamp == InitClamp /\ [][NextFetch]_vars

(* ------------------------------------------------------------------ *)
(* SpecUnhandled: one vertex fetch of a handled format (whether the    *)
(* switch is reached for another one is up to                          *)
(* xenos::GetVertexFormatNeededWords), with a handled or an unhandled  *)
(* signed_rf_mode, in a build that checks assertions or in one that    *)
(* does not; then the translation is completed.                        *)
(* ------------------------------------------------------------------ *)
\* "kUnhandled" stands for every value of signed_rf_mode the switches have no
\* case for.
AnyRfModes == RfModes \cup {"kUnhandled"}

UnhandledInput(i) ==
    \E f \in HandledFormats, m \in {1, 3, 15}, sg \in BOOLEAN,
       int \in BOOLEAN, rf \in AnyRfModes, asserts \in BOOLEAN :
        i = [instr |-> Instr(f, m, sg, int, rf, 0),
             env |-> [Env(<<16639, 32768>>, <<1, 32769>>)
                         EXCEPT !.asserts = asserts]]

InitUnhandled ==
    /\ self = InitSelf
    /\ status = "translating"
    /\ fault = "none"
    /\ module = "none"
    /\ last = NoCallback
    /\ prev_exec = NoExec
    /\ written_since = [exec |-> FALSE, instr |-> FALSE]
    /\ UnhandledInput(input)
    /\ fetch = NoFetch

NextUnhandled ==
    \/ NextFetch
    \/ last.op = "vfetch" /\ CompleteTranslation

SpecUnhandled == InitUnhandled /\ [][NextUnhandled]_vars

(* ------------------------------------------------------------------ *)
(* SpecNoZero: one k_16_16 vertex fetch, signed, normalized, kNoZero,  *)
(* with x and y used; both 16-bit fields hold the same bits, and every *)
(* 16-bit pattern is tried.                                            *)
(* ------------------------------------------------------------------ *)
NoZeroInput(i) ==
    \E u \in 0..(Pow2(16) - 1) :
        i = [instr |-> Instr("k_16_16", 3, TRUE, FALSE, "kNoZero", 0),
             env |-> Env(<<u, u>>, <<0, 0>>)]

InitNoZero ==
    /\ self = InitSelf
    /\ status = "translating"
    /\ fault = "none"
    /\ module = "none"
    /\ last = NoCallback
    /\ prev_exec = NoExec
    /\ written_since = [exec |-> FALSE, instr |-> FALSE]
    /\ NoZeroInput(input)
    /\ fetch = NoFetch

SpecNoZero == InitNoZero /\ [][NextFetch]_vars

(* ------------------------------------------------------------------ *)
(* What the properties below read of a state.                          *)
(* ------------------------------------------------------------------ *)

\* The word of the element that holds the component i of the format: the
\* packed formats by packed_words, the half float formats two components a
\* word, the 32-bit formats a component a word.
ComponentWord(format, i) ==
    IF format \in PackedFormats THEN PackedWords(format)[i + 1]
    ELSE IF format \in HalfFloatFormats THEN i \div 2
    ELSE i

\* The vertex fetch has been translated and has given StoreResult a value.
Fetched == last.op = "vfetch" /\ fetch.done

\* The components of the mask M the format has.
NativeComponents(format, M) ==
    And4(M, Pow2(GetVertexFormatComponentCount(format)) - 1)

\* The 16 bits u read as a signed integer.
Signed16(u) == IF u >= Pow2(15) THEN u - Pow2(16) ELSE u

\* The number of the component r.
ValueOf(r) == [n |-> r.n, d |-> r.d]

\* The position in `ops` of the endian swap, after which the decoding begins.
SwapPosition(ops) == CHOOSE k \in 1..Len(ops) : ops[k].op = "EndianSwap32Uint"

\* The instructions that convert, scale, bias or unpack.
ConvertingOps ==
    {"OpConvertSToF", "OpConvertUToF", "OpFMul", "OpFAdd", "FMax",
     "OpBitFieldSExtract", "OpBitFieldUExtract", "UnpackHalf2x16"}

(* ------------------------------------------------------------------ *)
(* Properties.                                                         *)
(* ------------------------------------------------------------------ *)

\* C1: an exec-begin with the discriminator and the condition of the
\* exec-begin before it (only instructions between them) leaves the
\* conditional of that exec open and reuses it, one conditional branch and no
\* merge block emitted for it so far, when the predicate was not written
\* between them; when it was written, the first conditional has been closed
\* (its merge block emitted once) and a second one, with a branch of its own,
\* is open.
C1_ExecCoalescing ==
    (last.op = "exec_begin" /\ last.same_as_prev) =>
        /\ last.before # NullBlock
        /\ CopiesIn(last.before, self.branches) = 1
        /\ IF last.written
           THEN /\ CopiesIn(last.before, self.function_blocks) = 1
                /\ self.cf_exec_conditional_merge_ \notin
                       {NullBlock, last.before}
                /\ CopiesIn(self.cf_exec_conditional_merge_, self.branches) = 1
                /\ CopiesIn(self.cf_exec_conditional_merge_,
                            self.function_blocks) = 0
           ELSE /\ self.cf_exec_conditional_merge_ = last.before
                /\ CopiesIn(last.before, self.function_blocks) = 0

\* Two predicated execs with the same condition and a predicate write between
\* them: two conditionals, the first closed.
C1_Witness ==
    /\ last.op = "exec_begin"
    /\ last.same_as_prev
    /\ last.written
    /\ last.type = "kPredicated"
    /\ last.before = 1
    /\ self.cf_exec_conditional_merge_ = 2

\* C2: for a handled format, the handler loads no word if and only if the
\* mask requests none of the components the format has; the words it loads
\* are exactly those that hold a requested component of the format; no
\* assertion of the handler fails (needed_words # 0 implies
\* used_format_components # 0); and for the 32-bit formats needed_words is the
\* mask of the requested components the format has.
C2_NeededWords ==
    (last.op = "vfetch" /\ input.instr.data_format \in HandledFormats) =>
        LET F == input.instr.data_format
            native == NativeComponents(F, input.instr.used_result_components)
        IN  /\ status # "fatal"
            /\ fetch.done
            /\ (fetch.loaded = <<>>) <=> (native = 0)
            /\ {fetch.loaded[j] : j \in 1..Len(fetch.loaded)}
                   = {ComponentWord(F, i) : i \in BitSet(native)}
            /\ F \in Int32Formats \cup Float32Formats =>
                   NeededWords(input.instr) = native

\* k_16_16_16_16 with z alone requested: word 1 alone is loaded.
C2_Witness ==
    /\ Fetched
    /\ input.instr.data_format = "k_16_16_16_16"
    /\ input.instr.used_result_components = 4
    /\ fetch.loaded = <<1>>

\* C3: when the mask requests a component the format has and a component it
\* has not, StoreResult is given the decoded components, unchanged and in
\* ascending order of component, followed by one zero for each requested
\* component the format has not: popcount(M) components in all, every padded
\* component of a higher index than every decoded one.
C3_ZeroPadding ==
    LET F == input.instr.data_format
        M == input.instr.used_result_components
        native == NativeComponents(F, M)
        missing == M - native
        c == Locals(input.instr, input.env)
        decoded == ExpAdjusted(DecodedResult(c), input.instr.exp_adjust)
    IN  (Fetched /\ F \in HandledFormats /\ native # 0 /\ missing # 0) =>
            LET r == fetch.stored[1]
            IN  /\ Len(fetch.stored) = 1
                /\ Len(r) = BitCount(M)
                /\ Len(decoded) = BitCount(native)
                /\ SubSeq(r, 1, BitCount(native)) = decoded
                /\ \A j \in 1..BitCount(native) :
                       r[j].comp = Ascending(BitSet(native))[j]
                /\ \A j \in (BitCount(native) + 1)..Len(r) :
                       r[j] = ConstFloat0
                /\ Len(r) - BitCount(native) = BitCount(missing)
                /\ \A a \in BitSet(native), b \in BitSet(missing) : a < b

\* k_16_16 with all four components requested: x, y, 0, 0.
C3_Witness ==
    /\ Fetched
    /\ input.instr.data_format = "k_16_16"
    /\ input.instr.used_result_components = 15
    /\ Len(fetch.stored[1]) = 4
    /\ fetch.stored[1][1].comp = 0
    /\ fetch.stored[1][2].comp = 1
    /\ fetch.stored[1][3] = ConstFloat0
    /\ fetch.stored[1][4] = ConstFloat0

\* C4: for the 32-bit float formats, whatever is_signed, is_integer and
\* signed_rf_mode are, the decoding is one OpBitcast of the swapped words: no
\* instruction that converts, scales, biases or unpacks follows the swap
\* (OpVectorTimesScalar only for the exponent bias), and StoreResult is given
\* one component for each loaded word, holding the bits of that word.
C4_Float32Bitcast ==
    (Fetched /\ input.instr.data_format \in Float32Formats
             /\ fetch.loaded # <<>>) =>
        LET ops == fetch.ops
            k == SwapPosition(ops)
            r == fetch.stored[1]
            n == Len(fetch.loaded)
        IN  /\ ops[k + 1] = Op("OpBitcast", n)
            /\ \A m \in (k + 2)..Len(ops) :
                   /\ ops[m].op \notin ConvertingOps
                   /\ ops[m].op # "OpBitcast"
                   /\ ops[m].op = "OpVectorTimesScalar" =>
                          input.instr.exp_adjust # 0
            /\ Len(r) >= n
            /\ \A j \in 1..n :
                   /\ r[j].kind = "f32"
                   /\ r[j].norm = "none"
                   /\ r[j].comp = fetch.loaded[j]
                   /\ r[j].bits = input.env.words[fetch.loaded[j] + 1]
            /\ \A j \in (n + 1)..Len(r) : r[j] = ConstFloat0

\* k_32_32_FLOAT, signed, normalized, kNoZero, both components: the two words
\* as they are.
C4_Witness ==
    /\ Fetched
    /\ input.instr.data_format = "k_32_32_FLOAT"
    /\ input.instr.used_result_components = 3
    /\ input.instr.is_signed
    /\ ~input.instr.is_integer
    /\ input.instr.signed_rf_mode = "kNoZero"
    /\ input.instr.exp_adjust = 0
    /\ Len(fetch.stored[1]) = 2
    /\ fetch.stored[1][1].bits = <<32768, 32767>>
    /\ fetch.stored[1][2].bits = <<16639, 32768>>

\* C5: a packed format decoded unsigned and normalized (no exponent bias)
\* gives, for each requested component of the width w, the field of the
\* component divided by 2^w - 1, so 1 for a field of all ones; k_2_10_10_10
\* with the fields (1023, 1023, 1023, 3) gives (1, 1, 1, 1).
C5_UnsignedNormalized ==
    LET F == input.instr.data_format
        native == NativeComponents(F, input.instr.used_result_components)
    IN  (Fetched /\ F \in PackedFormats /\ native # 0
                 /\ ~input.instr.is_signed /\ ~input.instr.is_integer
                 /\ input.instr.exp_adjust = 0) =>
            LET r == fetch.stored[1]
            IN  /\ Len(r) >= BitCount(native)
                /\ \A j \in 1..BitCount(native) :
                     LET i == Ascending(BitSet(native))[j]
                         w == PackedWidths(F)[i + 1]
                         field == BitFieldUExtract(
                                      input.env.words[ComponentWord(F, i) + 1],
                                      PackedOffsets(F)[i + 1], w)
                     IN  /\ r[j].kind = "float"
                         /\ r[j].exp = 0
                         /\ ValueOf(r[j]) = Rat(field, Pow2(w) - 1)
                         /\ field = Pow2(w) - 1 => ValueOf(r[j]) = Rat(1, 1)
                /\ (/\ F = "k_2_10_10_10"
                    /\ input.instr.used_result_components = 15
                    /\ input.env.words[1] = <<65535, 65535>>) =>
                       \A j \in 1..4 : ValueOf(r[j]) = Rat(1, 1)

\* k_2_10_10_10 unsigned normalized, the word 0xFFFFFFFF: (1, 1, 1, 1).
C5_Witness ==
    /\ Fetched
    /\ input.instr.data_format = "k_2_10_10_10"
    /\ input.instr.used_result_components = 15
    /\ ~input.instr.is_signed
    /\ ~input.instr.is_integer
    /\ input.instr.exp_adjust = 0
    /\ input.env.words[1] = <<65535, 65535>>
    /\ Len(fetch.stored[1]) = 4
    /\ ValueOf(fetch.stored[1][4]) = Rat(1, 1)

\* C6: k_16_16 decoded signed and normalized under kNoZero gives, for a field
\* holding v (-32768 <= v <= 32767), (2v + 1) / 65535: never 0, and between
\* -1 and 1.
C6_NoZero ==
    (Fetched /\ input.instr.data_format = "k_16_16"
             /\ input.instr.used_result_components = 3
             /\ input.instr.is_signed /\ ~input.instr.is_integer
             /\ input.instr.signed_rf_mode = "kNoZero"
             /\ input.instr.exp_adjust = 0) =>
        LET r == fetch.stored[1]
            word == input.env.words[1]
            v == [j \in 1..2 |-> Signed16(word[3 - j])]
        IN  /\ Len(r) = 2
            /\ \A j \in 1..2 :
                   /\ r[j].kind = "float"
                   /\ r[j].exp = 0
                   /\ ValueOf(r[j]) = Rat(2 * v[j] + 1, Pow2(16) - 1)
                   /\ r[j].n # 0
                   /\ -r[j].d <= r[j].n
                   /\ r[j].n <= r[j].d

\* The fields holding -32768: both components are -1.
C6_Witness ==
    /\ Fetched
    /\ input.instr.data_format = "k_16_16"
    /\ input.instr.signed_rf_mode = "kNoZero"
    /\ input.instr.is_signed
    /\ ~input.instr.is_integer
    /\ input.env.words[1] = <<32768, 32768>>
    /\ ValueOf(fetch.stored[1][1]) = Rat(-1, 1)
    /\ ValueOf(fetch.stored[1][2]) = Rat(-1, 1)

\* C7: k_8_8_8_8 decoded unsigned and normalized, all four components
\* requested (no exponent bias): the component i is the byte i of the swapped
\* word, counted from the least significant one, divided by 255; the word
\* 0x40FF8000 gives (0, 128/255, 1, 64/255).
C7_Bytes ==
    (Fetched /\ input.instr.data_format = "k_8_8_8_8"
             /\ input.instr.used_result_components = 15
             /\ ~input.instr.is_signed /\ ~input.instr.is_integer
             /\ input.instr.exp_adjust = 0) =>
        LET r == fetch.stored[1]
            word == input.env.words[1]
            byte == <<word[2] % 256, word[2] \div 256,
                      word[1] % 256, word[1] \div 256>>
        IN  /\ Len(r) = 4
            /\ \A j \in 1..4 :
                   /\ r[j].kind = "float"
                   /\ r[j].exp = 0
                   /\ r[j].comp = j - 1
                   /\ ValueOf(r[j]) = Rat(byte[j], 255)
            /\ word = <<16639, 32768>> =>
                   /\ ValueOf(r[1]) = [n |-> 0, d |-> 1]
                   /\ ValueOf(r[2]) = [n |-> 128, d |-> 255]
                   /\ ValueOf(r[3]) = [n |-> 1, d |-> 1]
                   /\ ValueOf(r[4]) = [n |-> 64, d |-> 255]

\* The word 0x40FF8000 decoded.
C7_Witness ==
    /\ Fetched
    /\ input.instr.data_format = "k_8_8_8_8"
    /\ input.instr.used_result_components = 15
    /\ ~input.instr.is_signed
    /\ ~input.instr.is_integer
    /\ input.instr.exp_adjust = 0
    /\ input.env.words[1] = <<16639, 32768>>
    /\ fetch.stored[1][2].n = 128
    /\ fetch.stored[1][4].n = 64

\* C8: after any callbacks, every conditional opened has one conditional
\* branch, and its merge block has been emitted at most once; the conditionals
\* whose merge block has not been emitted are the open exec-level one and the
\* open instruction-level one, one of each at most; when CompleteTranslation
\* has finalized the function none is open: both members are null and every
\* merge block has been emitted exactly once.
C8_Conditionals ==
    LET opened == 1..(self.next_block - 1)
        open == {b \in opened : CopiesIn(b, self.function_blocks) = 0}
    IN  /\ \A b \in opened :
               /\ CopiesIn(b, self.branches) = 1
               /\ CopiesIn(b, self.function_blocks) <= 1
        /\ BagToSet(self.branches) = opened
        /\ BagToSet(self.function_blocks) \subseteq opened
        /\ open = {self.cf_exec_conditional_merge_,
                   self.cf_instruction_predicate_merge_} \ {NullBlock}
        /\ self.cf_exec_conditional_merge_ # NullBlock =>
               self.cf_exec_conditional_merge_
                   # self.cf_instruction_predicate_merge_
        /\ status = "complete" =>
               /\ self.cf_exec_conditional_merge_ = NullBlock
               /\ self.cf_instruction_predicate_merge_ = NullBlock
               /\ open = {}

\* A translation completed after an exec-level and an instruction-level
\* conditional were opened.
C8_Witness ==
    /\ status = "complete"
    /\ self.next_block = 3
    /\ CopiesIn(1, self.function_blocks) = 1
    /\ CopiesIn(2, self.function_blocks) = 1
    /\ self.cf_exec_conditional_merge_ = NullBlock
    /\ self.cf_instruction_predicate_merge_ = NullBlock

\* C9: when CompleteTranslation is reached with a jump whose target is no
\* label of the stream, the translation ends in the fatal
\* MalformedControlFlow condition and no module bytes are returned; module
\* bytes are returned only by a completed translation, all of whose jump
\* targets are labels.
C9_UndefinedLabel ==
    /\ (last.op = "complete" /\ self.jump_targets # {}) =>
           /\ status = "fatal"
           /\ fault = "MalformedControlFlow"
           /\ module = "none"
    /\ module # "none" =>
           /\ status = "complete"
           /\ self.jump_targets = {}

\* The stream ended after a jump to a label it does not define.
C9_Witness ==
    /\ last.op = "complete"
    /\ self.jump_targets # {}
    /\ self.labels = {}
    /\ status = "fatal"
    /\ fault = "MalformedControlFlow"

\* C10: after an instruction (UpdateInstructionPredication(predicated,
\* condition) has returned), the instruction-level conditional is open if and
\* only if predicated, and then its expected value is condition; it is the
\* conditional that was open before only if that one had the same expected
\* value and the predicate was not written since it was opened; otherwise the
\* one that was open has been closed (its merge block emitted once), and a
\* conditional now open was opened after it.
C10_InstructionPredication ==
    (last.op \in {"alu", "vfetch"}) =>
        LET merge == self.cf_instruction_predicate_merge_
        IN  /\ (merge # NullBlock) <=> last.predicated
            /\ last.predicated =>
                   self.cf_instruction_predicate_condition_ = last.condition
            /\ (last.before # NullBlock /\ merge = last.before) =>
                   /\ last.before_condition = last.condition
                   /\ ~last.written
            /\ (last.before # NullBlock /\ merge # last.before) =>
                   /\ CopiesIn(last.before, self.function_blocks) = 1
                   /\ merge # NullBlock =>
                          /\ merge > last.before
                          /\ CopiesIn(merge, self.function_blocks) = 0
                          /\ CopiesIn(merge, self.branches) = 1

\* A vertex fetch predicated as the instruction before it, the predicate
\* written since: the conditional is closed and a new one opened.
C10_Witness ==
    /\ last.op = "vfetch"
    /\ last.predicated
    /\ last.before = 1
    /\ last.before_condition = last.condition
    /\ last.written
    /\ self.cf_instruction_predicate_merge_ = 2
    /\ fetch.done

\* C11: when needed_words is 0, the handler emits no instruction (no load of a fetch constant, no
\* index, no load from the shared memory), gives StoreResult the no-result
\* value once, and has updated the instruction predication: the
\* instruction-level conditional is open if and only if the instruction is
\* predicated, with its condition.
C11_NothingToLoad ==
    (last.op = "vfetch" /\ NeededWords(input.instr) = 0) =>
        /\ status = "translating"
        /\ fetch.done
        /\ fetch.ops = <<>>
        /\ fetch.loaded = <<>>
        /\ fetch.addresses = <<>>
        /\ fetch.stored = << <<>> >>
        /\ (self.cf_instruction_predicate_merge_ # NullBlock)
               <=> last.predicated
        /\ last.predicated =>
               self.cf_instruction_predicate_condition_ = last.condition

\* A predicated k_16_16 fetch of z and w alone.
C11_Witness ==
    /\ last.op = "vfetch"
    /\ last.predicated
    /\ input.instr.data_format = "k_16_16"
    /\ input.instr.used_result_components = 12
    /\ fetch.stored = << <<>> >>
    /\ fetch.ops = <<>>
    /\ self.cf_instruction_predicate_merge_ = 1

\* The integer I with I <= x2 / 2 < I + 1.
FloorOfHalf(x2) == CHOOSE I \in -4..4 : 2 * I <= x2 /\ x2 < 2 * I + 2

\* The instructions that read the index operand.
IndexOps == {"LoadOperandStorage", "GetOperandComponents", "Floor",
             "OpConvertFToS", "OpIMul"}

\* C12: every needed word w is loaded from base + I * stride + offset + w,
\* I being floor(index), or floor(index + 0.5) when is_index_rounded (1.5
\* gives 2 and 2.5 gives 3); with the stride 0 the index operand is not read
\* and the address is base + offset + w.
C12_Address ==
    (Fetched /\ fetch.loaded # <<>>) =>
        LET a == input.instr
            x2 == input.env.index2
            I == IF a.is_index_rounded THEN FloorOfHalf(x2 + 1)
                 ELSE FloorOfHalf(x2)
            names == {fetch.ops[k].op : k \in 1..Len(fetch.ops)}
        IN  /\ Len(fetch.addresses) = Len(fetch.loaded)
            /\ \A j \in 1..Len(fetch.loaded) :
                   fetch.addresses[j] =
                       input.env.base + I * a.stride + a.offset
                       + fetch.loaded[j]
            /\ (a.is_index_rounded /\ x2 = 3) => I = 2
            /\ (a.is_index_rounded /\ x2 = 5) => I = 3
            /\ a.stride = 0 =>
                   /\ names \cap IndexOps = {}
                   /\ \A j \in 1..Len(fetch.loaded) :
                          fetch.addresses[j] =
                              input.env.base + a.offset + fetch.loaded[j]
            /\ a.stride # 0 => "GetOperandComponents" \in names

\* z of k_16_16_16_16 at the index 2.5, rounded, the stride 3, the offset -2
\* and the base 7: word 1, loaded from 7 + 3 * 3 - 2 + 1.
C12_Witness ==
    /\ Fetched
    /\ input.instr.data_format = "k_16_16_16_16"
    /\ input.instr.used_result_components = 4
    /\ input.instr.is_index_rounded
    /\ input.env.index2 = 5
    /\ input.instr.stride = 3
    /\ input.instr.offset = -2
    /\ input.env.base = 7
    /\ fetch.loaded = <<1>>
    /\ fetch.addresses = <<15>>

\* The position in `ops` of the conversion of the extracted integers to
\* floats, which the normalization multiply follows.
ConvertPosition(ops) ==
    CHOOSE k \in 1..Len(ops) : ops[k].op \in {"OpConvertSToF", "OpConvertUToF"}

\* C13: in the normalized decoding of a packed format with two or more
\* requested components, the normalization multiply is OpVectorTimesScalar
\* (one scale for the whole vector) when the requested components all have
\* the same width, and OpFMul by a vector of scales only when their widths
\* differ.
C13_ScalarBroadcast ==
    LET F == input.instr.data_format
        native == NativeComponents(F, input.instr.used_result_components)
    IN  (Fetched /\ F \in PackedFormats /\ ~input.instr.is_integer
                 /\ BitCount(native) >= 2) =>
            LET widths == {PackedWidths(F)[i + 1] : i \in BitSet(native)}
                mul == fetch.ops[ConvertPosition(fetch.ops) + 1]
            IN  /\ Cardinality(widths) = 1 => mul.op = "OpVectorTimesScalar"
                /\ Cardinality(widths) > 1 => mul.op = "OpFMul"

\* The n bits u read as a signed integer.
SignedField(u, n) == IF u >= Pow2(n - 1) THEN u - Pow2(n) ELSE u

\* C14: a packed format decoded signed and normalized under
\* kZeroClampMinusOne (no exponent bias) gives, for a field of the width n
\* holding v, max(v / (2^(n-1) - 1), -1): -1 for -(2^(n-1)) and for
\* -(2^(n-1) - 1), 1 for 2^(n-1) - 1, 0 for 0, and always a value between -1
\* and 1.
C14_ClampMinusOne ==
    LET F == input.instr.data_format
        native == NativeComponents(F, input.instr.used_result_components)
    IN  (Fetched /\ F \in PackedFormats /\ native # 0
                 /\ input.instr.is_signed /\ ~input.instr.is_integer
                 /\ input.instr.signed_rf_mode = "kZeroClampMinusOne"
                 /\ input.instr.exp_adjust = 0) =>
            LET r == fetch.stored[1]
            IN  /\ Len(r) >= BitCount(native)
                /\ \A j \in 1..BitCount(native) :
                     LET i == Ascending(BitSet(native))[j]
                         n == PackedWidths(F)[i + 1]
                         max == Pow2(n - 1) - 1
                         v == SignedField(
                                  BitFieldUExtract(
                                      input.env.words[ComponentWord(F, i) + 1],
                                      PackedOffsets(F)[i + 1], n), n)
                     IN  /\ r[j].kind = "float"
                         /\ r[j].exp = 0
                         /\ ValueOf(r[j]) = IF v <= -max THEN Rat(-1, 1)
                                            ELSE Rat(v, max)
                         /\ v = max => ValueOf(r[j]) = Rat(1, 1)
                         /\ v = 0 => ValueOf(r[j]) = Rat(0, 1)
                         /\ -r[j].d <= r[j].n
                         /\ r[j].n <= r[j].d

\* k_8_8_8_8 with the bytes -127, -128, -127, -128: all four are -1.
C14_Witness ==
    /\ Fetched
    /\ input.instr.data_format = "k_8_8_8_8"
    /\ input.instr.is_signed
    /\ ~input.instr.is_integer
    /\ input.instr.signed_rf_mode = "kZeroClampMinusOne"
    /\ input.instr.used_result_components = 15
    /\ input.env.words[1] = <<32897, 32897>>
    /\ \A j \in 1..4 : ValueOf(fetch.stored[1][j]) = Rat(-1, 1)

\* C15: a vertex fetch whose format is not a handled one, or whose
\* signed_rf_mode is not one of the two handled modes, aborts the translation
\* with a fault: no value is given to StoreResult for it and no module is
\* produced.
C15_UnhandledAborts ==
    (/\ last.op \in {"vfetch", "complete"}
     /\ \/ input.instr.data_format \notin HandledFormats
        \/ input.instr.signed_rf_mode \notin RfModes) =>
        /\ status = "fatal"
        /\ fault # "none"
        /\ fetch.stored = <<>>
        /\ module = "none"

\* The number of the instructions `name` in ops.
CountOps(ops, name) == Cardinality({k \in 1..Len(ops) : ops[k].op = name})

\* C16: for the half float formats and a mask requesting a component the
\* format has, the requested components are given to StoreResult in ascending
\* order, popcount of them, the component c being the half float in the lane
\* c mod 2 (0: the low 16 bits) of the word c div 2; a word is loaded and
\* unpacked only if one of its lanes is requested, and a lane is extracted
\* from an unpacked pair only where the other lane is not requested.
C16_HalfFloat ==
    LET F == input.instr.data_format
        native == NativeComponents(F, input.instr.used_result_components)
    IN  (Fetched /\ F \in HalfFloatFormats /\ native # 0) =>
            LET r == fetch.stored[1]
                n == BitCount(native)
                wanted == {c \div 2 : c \in BitSet(native)}
                single == {w \in wanted :
                              Bit(native, 2 * w) + Bit(native, 2 * w + 1) = 1}
            IN  /\ Len(r) = BitCount(input.instr.used_result_components)
                /\ \A j \in 1..n :
                     LET c == Ascending(BitSet(native))[j]
                         word == input.env.words[c \div 2 + 1]
                     IN  /\ r[j].kind = "f16"
                         /\ r[j].comp = c
                         /\ r[j].bits = <<0, word[2 - (c % 2)]>>
                /\ \A j \in (n + 1)..Len(r) : r[j] = ConstFloat0
                /\ {fetch.loaded[j] : j \in 1..Len(fetch.loaded)} = wanted
                /\ CountOps(fetch.ops, "LoadUint32FromSharedMemory")
                       = Cardinality(wanted)
                /\ CountOps(fetch.ops, "UnpackHalf2x16") = Cardinality(wanted)
                /\ CountOps(fetch.ops, "OpCompositeExtract")
                       = (IF Cardinality(wanted) > 1
                          THEN Cardinality(wanted) ELSE 0)
                         + Cardinality(single)

\* y and w of k_16_16_16_16_FLOAT: the high halves of the words 0 and 1.
C16_Witness ==
    /\ Fetched
    /\ input.instr.data_format = "k_16_16_16_16_FLOAT"
    /\ input.instr.used_result_components = 10
    /\ input.env.words[1] = <<16639, 32768>>
    /\ input.env.words[2] = <<65535, 65535>>
    /\ Len(fetch.stored[1]) = 2
    /\ fetch.stored[1][1].comp = 1
    /\ fetch.stored[1][1].bits = <<0, 16639>>
    /\ fetch.stored[1][2].comp = 3
    /\ fetch.stored[1][2].bits = <<0, 65535>>

\* C17: when words are needed, they are loaded in ascending order of word
\* index, popcount(needed_words) of them; word_composite_indices[w] of a
\* needed word w is the number of needed words below w; and a requested
\* component of a packed or half float format is taken from the loaded word
\* that is the word of the component in the format, also when it is the only
\* word loaded and not word 0.
C17_WordIndices ==
    LET F == input.instr.data_format
        native == NativeComponents(F, input.instr.used_result_components)
        needed == BitSet(NeededWords(input.instr))
        c == Locals(input.instr, input.env)
    IN  (Fetched /\ fetch.loaded # <<>>) =>
            LET r == fetch.stored[1]
            IN  /\ Len(fetch.loaded) = BitCount(NeededWords(input.instr))
                /\ \A j \in 1..Len(fetch.loaded) : fetch.loaded[j] \in needed
                /\ \A j \in 2..Len(fetch.loaded) :
                       fetch.loaded[j - 1] < fetch.loaded[j]
                /\ \A w \in needed :
                       c.word_composite_indices[w]
                           = Cardinality({x \in needed : x < w})
                /\ (F \in PackedFormats /\ input.instr.is_integer
                      /\ ~input.instr.is_signed) =>
                       \A j \in 1..BitCount(native) :
                           LET i == Ascending(BitSet(native))[j]
                           IN  ValueOf(r[j]) =
                                   Rat(BitFieldUExtract(
                                           input.env.words
                                               [PackedWords(F)[i + 1] + 1],
                                           PackedOffsets(F)[i + 1],
                                           PackedWidths(F)[i + 1]), 1)
                /\ F \in HalfFloatFormats =>
                       \A j \in 1..BitCount(native) :
                           LET i == Ascending(BitSet(native))[j]
                           IN  r[j].bits =
                                   <<0, input.env.words[i \div 2 + 1]
                                            [2 - (i % 2)]>>

\* z of k_16_16_16_16 alone, as an unsigned integer: word 1 is the only word
\* loaded, and z is its low half.
C17_Witness ==
    /\ Fetched
    /\ input.instr.data_format = "k_16_16_16_16"
    /\ input.instr.used_result_components = 4
    /\ input.instr.is_integer
    /\ ~input.instr.is_signed
    /\ input.instr.exp_adjust = 0
    /\ input.env.words[1] = <<0, 0>>
    /\ input.env.words[2] = <<16639, 32768>>
    /\ fetch.loaded = <<1>>
    /\ ValueOf(fetch.stored[1][1]) = Rat(32768, 1)

\* C18: every OpVectorTimesScalar the handler emits has a result of two
\* components at least; where one component alone is decoded and the exponent
\* bias is applied, the multiply is a scalar OpFMul.
C18_VectorTimesScalar ==
    Fetched =>
        /\ \A k \in 1..Len(fetch.ops) :
               fetch.ops[k].op = "OpVectorTimesScalar" => fetch.ops[k].n >= 2
        /\ (/\ fetch.loaded # <<>>
            /\ input.instr.exp_adjust # 0
            /\ BitCount(NativeComponents(input.instr.data_format,
                            input.instr.used_result_components)) = 1) =>
               \E k \in 1..Len(fetch.ops) : fetch.ops[k] = Op("OpFMul", 1)

====
